---- MODULE Spec2Model ----
(***************************************************************************)
(* dockerpty/pty.py: WINCHHandler and PseudoTerminal.                      *)
(*                                                                         *)
(* One control thread runs PseudoTerminal.start(); the only asynchronous   *)
(* entry point is the SIGWINCH handler, which the interpreter runs between *)
(* two steps of the control thread.  dockerpty.io (Pump, select,           *)
(* set_blocking) and dockerpty.tty (Terminal, size) are modelled at their  *)
(* interface.  A behaviour is the calls a caller makes on a fresh          *)
(* PseudoTerminal before start(), followed by one run of start().          *)
(***************************************************************************)
EXTENDS Integers, Sequences, FiniteSets, TLC

VARIABLES
    pc,               \* position of the control thread
    exc,              \* exception in flight, or raised by the last call ("none" if none)
    running,          \* inspect: State.Running
    configTty,        \* inspect: Config.Tty
    stdoutIsatty,     \* sys.stdout.isatty()
    termSize,         \* dimensions of the local terminal
    termAttrs,        \* attributes of the local terminal device
    savedAttrs,       \* tty.Terminal: the captured attributes, <<>> if none
    sigslot,          \* occupant of the SIGWINCH slot
    original_handler, \* WINCHHandler.original_handler
    raw,              \* PseudoTerminal.raw, the memo of israw()
    sockOpen,         \* attach sockets obtained from the client
    pumpsMade,        \* the three io.Pump objects exist
    blocking,         \* blocking mode of each pump's descriptors
    flags,            \* start(): snapshot of the blocking modes, <<>> if unbound
    src,              \* state of each pump's source stream
    ready,            \* _hijack_tty: the result of io.select
    results,          \* _hijack_tty: "flush() is not None" of the pumps flushed so far
    resizeLog,        \* the calls of client.resize, oldest first
    lastOut,          \* outcome of client.resize in the step just taken, if it was called
    sigPending,       \* a SIGWINCH is pending delivery
    events,           \* direct calls and window changes so far
    hist              \* what the run started from and which scopes it entered and left

vars == <<pc, exc, running, configTty, stdoutIsatty, termSize, termAttrs,
          savedAttrs, sigslot, original_handler, raw, sockOpen, pumpsMade,
          blocking, flags, src, ready, results, resizeLog, lastOut,
          sigPending, events, hist>>

----------------------------------------------------------------------------
(* Bounds *)

\* direct calls of resize()/israw() plus window changes in one behaviour
MaxEvents == 1

\* calls of start()/stop() made directly on one WINCHHandler
MaxCalls == 3

(* Program constants *)

SelectTimeout == 1
NumSockets == 3

----------------------------------------------------------------------------
(* Values *)

Pumps == 1..NumSockets   \* 1: stdin -> pty_stdin, 2: pty_stdout -> stdout, 3: pty_stderr -> stderr
Sizes == {<<24, 80>>, <<40, 100>>}
NoSize == <<>>
Cooked == [echo |-> TRUE, icanon |-> TRUE, isig |-> TRUE]
NoEcho == [echo |-> FALSE, icanon |-> TRUE, isig |-> TRUE]
PriorOccupants == {"py", "SIG_DFL", "SIG_IGN", "c_handler"}
LoopPcs == {"select", "flush"}
\* blocking modes the three descriptors may have before start(): all blocking,
\* or stdin already nonblocking
InitialModes == {[p \in Pumps |-> TRUE], [p \in Pumps |-> p # 1]}

----------------------------------------------------------------------------
(* dockerpty.tty and dockerpty.io, at their interface *)

\* tty.setraw: unbuffered, unechoed, byte-at-a-time input
SetRaw(attrs) == [attrs EXCEPT !.echo = FALSE, !.icanon = FALSE, !.isig = FALSE]

\* tty.Terminal.start: capture the attributes and switch to raw mode if raw
\* mode is requested, otherwise nothing
TerminalStart(attrs, saved, wantRaw) ==
    IF wantRaw
    THEN [attrs |-> SetRaw(attrs), saved |-> <<attrs>>]
    ELSE [attrs |-> attrs, saved |-> saved]

\* tty.Terminal.stop: restore the captured attributes, if any were captured
TerminalStop(attrs, saved) ==
    IF saved # <<>> THEN saved[1] ELSE attrs

\* tty.size(sys.stdout): the dimensions of the local terminal, None if there
\* is no terminal
TtySize == IF stdoutIsatty THEN termSize ELSE NoSize

\* io.set_blocking(pump, value): applies the mode, returns the previous one
SetBlocking(modes, p, value) ==
    [modes |-> [modes EXCEPT ![p] = value], old |-> modes[p]]

\* io.select(pumps, timeout): the pumps whose source has data or is at
\* end-of-stream, in the order given; empty when the timeout expires
RECURSIVE ReadyFrom(_)
ReadyFrom(p) ==
    IF p > NumSockets THEN <<>>
    ELSE (IF src[p] \in {"data", "eof"} THEN <<p>> ELSE <<>>) \o ReadyFrom(p + 1)

IoSelect(timeout) == ReadyFrom(1)

\* io.Pump.flush: None ("ended") at end-of-stream or on a read/write error,
\* otherwise the number of bytes moved (0 if nothing is available)
FlushReturnsNone(state, fault) == state = "eof" \/ fault

\* the source after a flush: the available chunk has been moved
SourceAfterFlush(state) == IF state = "data" THEN "empty" ELSE state

----------------------------------------------------------------------------
(* WINCHHandler *)

\* signal.signal(SIGWINCH, handle) returns the previous handler: None when
\* it was not installed from Python (line 70)
PreviousHandler(slot) == IF slot = "c_handler" THEN "None" ELSE slot

\* WINCHHandler.stop (lines 78-79)
SlotAfterStop(orig, slot) == IF orig # "None" THEN orig ELSE slot

----------------------------------------------------------------------------
(* PseudoTerminal *)

\* variant: israw without the memo, computed afresh by every call
IsrawUnmemoized(memo, inspectOk) ==
    IF ~inspectOk THEN [raw |-> memo, exc |-> "InspectError"]
    ELSE [raw |-> IF stdoutIsatty /\ configTty THEN "True" ELSE "False",
          exc |-> "none"]

\* israw (lines 160-164): [raw, exc]
Israw(memo, inspectOk) ==
    IF memo # "None" THEN [raw |-> memo, exc |-> "none"]
    ELSE IF ~inspectOk THEN [raw |-> memo, exc |-> "InspectError"]
    ELSE [raw |-> IF stdoutIsatty /\ configTty THEN "True" ELSE "False",
          exc |-> "none"]

\* variant: the except clause swallows nothing
SwallowsNothing(err) == FALSE

\* the except clause of resize (line 198): the errors it swallows
Swallowed(err) == err = "IOError"

\* variant: resize without the israw() guard of lines 189-190
ResizeUnguarded(size, by, inspectOk, transport) ==
    LET sz == IF size # NoSize THEN size ELSE TtySize IN
    IF sz = NoSize
    THEN [raw |-> raw, log |-> resizeLog, out |-> "none", exc |-> "none"]
    ELSE [raw |-> raw,
          log |-> Append(resizeLog, [rows |-> sz[1], cols |-> sz[2], by |-> by]),
          out |-> transport,
          exc |-> IF transport = "ok" \/ Swallowed(transport)
                  THEN "none" ELSE transport]

\* variant: resize passing height and width the wrong way round
ResizeSwapped(size, by, inspectOk, transport) ==
    LET ir == Israw(raw, inspectOk)
        quiet == [raw |-> ir.raw, log |-> resizeLog, out |-> "none", exc |-> ir.exc]
    IN
    IF ir.exc # "none" THEN quiet
    ELSE IF ir.raw # "True" THEN quiet
    ELSE LET sz == IF size # NoSize THEN size ELSE TtySize IN
         IF sz = NoSize THEN quiet
         ELSE [raw |-> ir.raw,
               log |-> Append(resizeLog, [rows |-> sz[2], cols |-> sz[1], by |-> by]),
               out |-> transport,
               exc |-> IF transport = "ok" \/ Swallowed(transport)
                       THEN "none" ELSE transport]

\* resize (lines 189-199): [raw, log, out, exc].  transport is the outcome of
\* client.resize: "ok", or "IOError" when the container already exited
Resize(size, by, inspectOk, transport) ==
    LET ir == Israw(raw, inspectOk)
        quiet == [raw |-> ir.raw, log |-> resizeLog, out |-> "none", exc |-> ir.exc]
    IN
    IF ir.exc # "none" THEN quiet
    ELSE IF ir.raw # "True" THEN quiet
    ELSE LET sz == IF size # NoSize THEN size ELSE TtySize IN
         IF sz = NoSize THEN quiet
         ELSE [raw |-> ir.raw,
               log |-> Append(resizeLog, [rows |-> sz[1], cols |-> sz[2], by |-> by]),
               out |-> transport,
               exc |-> IF transport = "ok" \/ Swallowed(transport)
                       THEN "none" ELSE transport]

\* variant: the terminal guard is not a with block, so an exception raised in
\* its body passes it by
UnwindPastTerminal(at) ==
    CASE at \in {"term_enter", "resize0", "select", "flush"} -> "winch_exit"
      [] at = "term_exit" -> "term_exit"
      [] at = "winch_exit" -> "winch_exit"
      [] at = "nonblock" -> "restore"
      [] OTHER -> "done"

\* where control continues when an exception is raised at position `at`:
\* the with blocks of lines 146 and 211 and the try/finally of lines 144-150
Unwind(at) ==
    CASE at = "term_enter" -> "winch_exit"
      [] at \in {"resize0", "select", "flush", "term_exit"} -> "term_exit"
      [] at = "winch_exit" -> "winch_exit"
      [] at = "nonblock" -> "restore"
      [] OTHER -> "done"

----------------------------------------------------------------------------
(* Initial state: a fresh PseudoTerminal, before start() *)

Init ==
    /\ pc = "idle"
    /\ exc = "none"
    /\ running \in BOOLEAN
    /\ configTty \in BOOLEAN
    /\ stdoutIsatty \in BOOLEAN
    /\ termSize \in Sizes
    /\ termAttrs \in {Cooked, NoEcho}
    /\ savedAttrs = <<>>
    /\ sigslot \in PriorOccupants
    /\ original_handler = "None"
    /\ raw = "None"
    /\ sockOpen = 0
    /\ pumpsMade = FALSE
    /\ blocking \in InitialModes
    /\ flags = <<>>
    /\ src = [p \in Pumps |-> "empty"]
    /\ ready = <<>>
    /\ results = <<>>
    /\ resizeLog = <<>>
    /\ lastOut = "none"
    /\ sigPending = FALSE
    /\ events = 0
    /\ hist = [attrs0 |-> termAttrs, slot0 |-> sigslot, blocking0 |-> blocking,
               termEnters |-> 0, termExits |-> 0,
               winchEnters |-> 0, winchExits |-> 0,
               eofSelects |-> 0, finallyErr |-> FALSE]

----------------------------------------------------------------------------
(* PseudoTerminal.start *)

\* variant: start() without the liveness check of lines 133-134
StartInspectUnchecked ==
    /\ pc = "idle"
    /\ \E inspectOk \in BOOLEAN :
         IF ~inspectOk THEN pc' = "done" /\ exc' = "InspectError"
         ELSE pc' = "sockets" /\ exc' = "none"
    /\ lastOut' = "none"
    /\ UNCHANGED <<running, configTty, stdoutIsatty, termSize, termAttrs,
                   savedAttrs, sigslot, original_handler, raw, sockOpen,
                   pumpsMade, blocking, flags, src, ready, results,
                   resizeLog, sigPending, events, hist>>

\* lines 132-134: the liveness check
StartInspect ==
    /\ pc = "idle"
    /\ \E inspectOk \in BOOLEAN :
         IF ~inspectOk THEN pc' = "done" /\ exc' = "InspectError"
         ELSE IF ~running THEN pc' = "done" /\ exc' = "NotRunning"
         ELSE pc' = "sockets" /\ exc' = "none"
    /\ lastOut' = "none"
    /\ UNCHANGED <<running, configTty, stdoutIsatty, termSize, termAttrs,
                   savedAttrs, sigslot, original_handler, raw, sockOpen,
                   pumpsMade, blocking, flags, src, ready, results,
                   resizeLog, sigPending, events, hist>>

\* lines 136-142: attach the three sockets, build the three pumps
Sockets ==
    /\ pc = "sockets"
    /\ \E n \in 0..NumSockets :
         /\ sockOpen' = n
         /\ IF n < NumSockets
            THEN pc' = "done" /\ exc' = "AttachError" /\ pumpsMade' = pumpsMade
            ELSE pc' = "nonblock" /\ exc' = exc /\ pumpsMade' = TRUE
    /\ lastOut' = "none"
    /\ UNCHANGED <<running, configTty, stdoutIsatty, termSize, termAttrs,
                   savedAttrs, sigslot, original_handler, raw, blocking,
                   flags, src, ready, results, resizeLog, sigPending, events,
                   hist>>

\* variant: line 145 leaves the stdin pump as it is
ForceNonblockingSkipStdin(modes, snapshot, p) ==
    [modes |-> [q \in Pumps |-> IF q = 1 THEN modes[q] ELSE FALSE],
     flags |-> [q \in 1..NumSockets |-> modes[q]]]

\* line 145: snapshot the blocking modes and force the pumps nonblocking
RECURSIVE ForceNonblocking(_, _, _)
ForceNonblocking(modes, snapshot, p) ==
    IF p > NumSockets THEN [modes |-> modes, flags |-> snapshot]
    ELSE LET r == SetBlocking(modes, p, FALSE) IN
         ForceNonblocking(r.modes, Append(snapshot, r.old), p + 1)

\* line 145 when the call of io.set_blocking for pump failAt raises: the pumps
\* before it have been switched, and the list is never bound to flags
ForcedBefore(modes, failAt) ==
    [p \in Pumps |-> IF p < failAt THEN SetBlocking(modes, p, FALSE).modes[p]
                                   ELSE modes[p]]

\* failAt = 0: no call of io.set_blocking raises
SetNonblocking ==
    /\ pc = "nonblock"
    /\ \E failAt \in 0..NumSockets :
         IF failAt = 0
         THEN LET r == ForceNonblocking(blocking, <<>>, 1) IN
              /\ blocking' = r.modes
              /\ flags' = r.flags
              /\ exc' = exc
              /\ pc' = "winch_enter"
         ELSE /\ blocking' = ForcedBefore(blocking, failAt)
              /\ flags' = flags
              /\ exc' = "SetBlockingError"
              /\ pc' = Unwind(pc)
    /\ lastOut' = "none"
    /\ UNCHANGED <<running, configTty, stdoutIsatty, termSize, termAttrs,
                   savedAttrs, sigslot, original_handler, raw, sockOpen,
                   pumpsMade, src, ready, results, resizeLog, sigPending,
                   events, hist>>

\* variant: start() reads the slot but installs nothing
WinchStartNoInstall ==
    /\ pc = "winch_enter"
    /\ original_handler' = PreviousHandler(sigslot)
    /\ hist' = [hist EXCEPT !.winchEnters = @ + 1]
    /\ pc' = "term_enter"
    /\ lastOut' = "none"
    /\ UNCHANGED <<exc, running, configTty, stdoutIsatty, termSize,
                   termAttrs, savedAttrs, sigslot, raw, sockOpen, pumpsMade,
                   blocking, flags, src, ready, results, resizeLog,
                   sigPending, events>>

\* line 146, lines 41-47 and 58-70: WINCHHandler(self).__enter__
WinchStart ==
    /\ pc = "winch_enter"
    /\ original_handler' = PreviousHandler(sigslot)
    /\ sigslot' = "handle"
    /\ hist' = [hist EXCEPT !.winchEnters = @ + 1]
    /\ pc' = "term_enter"
    /\ lastOut' = "none"
    /\ UNCHANGED <<exc, running, configTty, stdoutIsatty, termSize,
                   termAttrs, savedAttrs, raw, sockOpen, pumpsMade, blocking,
                   flags, src, ready, results, resizeLog, sigPending, events>>

\* line 211: tty.Terminal(sys.stdin, raw=self.israw()).__enter__
TermEnter ==
    /\ pc = "term_enter"
    /\ \E inspectOk \in BOOLEAN :
         LET ir == Israw(raw, inspectOk) IN
         /\ raw' = ir.raw
         /\ IF ir.exc # "none"
            THEN /\ exc' = ir.exc
                 /\ pc' = Unwind(pc)
                 /\ UNCHANGED <<termAttrs, savedAttrs, hist>>
            ELSE LET t == TerminalStart(termAttrs, savedAttrs, ir.raw = "True") IN
                 /\ termAttrs' = t.attrs
                 /\ savedAttrs' = t.saved
                 /\ hist' = [hist EXCEPT !.termEnters = @ + 1]
                 /\ exc' = exc
                 /\ pc' = "resize0"
    /\ lastOut' = "none"
    /\ UNCHANGED <<running, configTty, stdoutIsatty, termSize, sigslot,
                   original_handler, sockOpen, pumpsMade, blocking, flags,
                   src, ready, results, resizeLog, sigPending, events>>

\* line 212: the initial self.resize()
InitialResize ==
    /\ pc = "resize0"
    /\ \E inspectOk \in BOOLEAN, transport \in {"ok", "IOError"} :
         LET r == Resize(NoSize, "start", inspectOk, transport) IN
         /\ raw' = r.raw
         /\ resizeLog' = r.log
         /\ lastOut' = r.out
         /\ IF r.exc # "none"
            THEN exc' = r.exc /\ pc' = Unwind(pc)
            ELSE exc' = exc /\ pc' = "select"
    /\ UNCHANGED <<running, configTty, stdoutIsatty, termSize, termAttrs,
                   savedAttrs, sigslot, original_handler, sockOpen,
                   pumpsMade, blocking, flags, src, ready, results,
                   sigPending, events, hist>>

\* line 214: ready = io.select(pumps, timeout=1)
Select ==
    /\ pc = "select"
    /\ \E selectOk \in BOOLEAN :
         IF selectOk
         THEN /\ ready' = IoSelect(SelectTimeout)
              /\ results' = <<>>
              /\ exc' = exc
              /\ pc' = "flush"
              /\ hist' = [hist EXCEPT !.eofSelects =
                            IF (\E p \in Pumps : src[p] = "eof") /\ @ < 2
                            THEN @ + 1 ELSE @]
         ELSE /\ exc' = "SelectError"
              /\ pc' = Unwind(pc)
              /\ ready' = <<>>
              /\ results' = <<>>
              /\ hist' = hist
    /\ lastOut' = "none"
    /\ UNCHANGED <<running, configTty, stdoutIsatty, termSize, termAttrs,
                   savedAttrs, sigslot, original_handler, raw, sockOpen,
                   pumpsMade, blocking, flags, src, resizeLog, sigPending,
                   events>>

\* line 215, the list comprehension: p.flush() for the next ready pump
Flush ==
    /\ pc = "flush"
    /\ Len(results) < Len(ready)
    /\ \E kind \in {"ok", "fault", "raise"} :
         LET p == ready[Len(results) + 1] IN
         IF kind = "raise"
         THEN /\ exc' = "FlushError"
              /\ pc' = Unwind(pc)
              /\ ready' = <<>>
              /\ results' = <<>>
              /\ src' = src
         ELSE /\ results' = Append(results, ~FlushReturnsNone(src[p], kind = "fault"))
              /\ src' = [src EXCEPT ![p] = SourceAfterFlush(@)]
              /\ UNCHANGED <<exc, pc, ready>>
    /\ lastOut' = "none"
    /\ UNCHANGED <<running, configTty, stdoutIsatty, termSize, termAttrs,
                   savedAttrs, sigslot, original_handler, raw, sockOpen,
                   pumpsMade, blocking, flags, resizeLog, sigPending, events,
                   hist>>

\* variant: any([...]) in place of all([...])
LoopBreaksUnlessAny(notNone) == ~(\E i \in 1..Len(notNone) : notNone[i])

\* variant: the loop has no break
LoopBreaksNever(notNone) == FALSE

\* variant: an iteration in which nothing was flushed ends the loop too
LoopBreaksOnTimeout(notNone) ==
    notNone = <<>> \/ ~(\A i \in 1..Len(notNone) : notNone[i])

\* lines 215-216: if not all([...]): break
LoopBreaks(notNone) == ~(\A i \in 1..Len(notNone) : notNone[i])

\* variant: all(...) over a generator, which stops at the first None
LoopCheckShortCircuit ==
    /\ pc = "flush"
    /\ Len(results) = Len(ready) \/ LoopBreaks(results)
    /\ pc' = IF LoopBreaks(results) THEN "term_exit" ELSE "select"
    /\ ready' = <<>>
    /\ results' = <<>>
    /\ lastOut' = "none"
    /\ UNCHANGED <<exc, running, configTty, stdoutIsatty, termSize,
                   termAttrs, savedAttrs, sigslot, original_handler, raw,
                   sockOpen, pumpsMade, blocking, flags, src, resizeLog,
                   sigPending, events, hist>>

\* the locals of the loop are dead once an iteration has ended
LoopCheck ==
    /\ pc = "flush"
    /\ Len(results) = Len(ready)
    /\ pc' = IF LoopBreaks(results) THEN "term_exit" ELSE "select"
    /\ ready' = <<>>
    /\ results' = <<>>
    /\ lastOut' = "none"
    /\ UNCHANGED <<exc, running, configTty, stdoutIsatty, termSize,
                   termAttrs, savedAttrs, sigslot, original_handler, raw,
                   sockOpen, pumpsMade, blocking, flags, src, resizeLog,
                   sigPending, events, hist>>

\* line 211, leaving the with block: tty.Terminal.__exit__
TermExit ==
    /\ pc = "term_exit"
    /\ termAttrs' = TerminalStop(termAttrs, savedAttrs)
    /\ hist' = [hist EXCEPT !.termExits = @ + 1]
    /\ pc' = "winch_exit"
    /\ lastOut' = "none"
    /\ UNCHANGED <<exc, running, configTty, stdoutIsatty, termSize,
                   savedAttrs, sigslot, original_handler, raw, sockOpen,
                   pumpsMade, blocking, flags, src, ready, results,
                   resizeLog, sigPending, events>>

\* line 146, leaving the with block: WINCHHandler.__exit__ (lines 50-55, 73-79)
WinchStop ==
    /\ pc = "winch_exit"
    /\ sigslot' = SlotAfterStop(original_handler, sigslot)
    /\ hist' = [hist EXCEPT !.winchExits = @ + 1]
    /\ pc' = "restore"
    /\ lastOut' = "none"
    /\ UNCHANGED <<exc, running, configTty, stdoutIsatty, termSize,
                   termAttrs, savedAttrs, original_handler, raw, sockOpen,
                   pumpsMade, blocking, flags, src, ready, results,
                   resizeLog, sigPending, events>>

\* lines 148-150: the finally clause
RECURSIVE RestoreFrom(_, _, _)
RestoreFrom(modes, snapshot, p) ==
    IF p > NumSockets \/ p > Len(snapshot) THEN modes
    ELSE RestoreFrom(SetBlocking(modes, p, snapshot[p]).modes, snapshot, p + 1)

\* flags is unbound when line 145 raised: line 149 then raises
\* UnboundLocalError, which replaces the exception in flight
RestoreBlocking ==
    /\ pc = "restore"
    /\ IF flags = <<>>
       THEN blocking' = blocking /\ exc' = "UnboundLocalError"
       ELSE blocking' = RestoreFrom(blocking, flags, 1) /\ exc' = exc
    /\ pc' = "done"
    /\ lastOut' = "none"
    /\ UNCHANGED <<running, configTty, stdoutIsatty, termSize, termAttrs,
                   savedAttrs, sigslot, original_handler, raw, sockOpen,
                   pumpsMade, flags, src, ready, results, resizeLog,
                   sigPending, events, hist>>

----------------------------------------------------------------------------
(* The SIGWINCH handler *)

\* variant: the test of signum the wrong way round
HandleOtherSignals(signum, inspectOk, transport) ==
    IF signum # "SIGWINCH"
    THEN Resize(NoSize, "winch", inspectOk, transport)
    ELSE [raw |-> raw, log |-> resizeLog, out |-> "none", exc |-> "none"]

\* handle(signum, frame), lines 66-68
Handle(signum, inspectOk, transport) ==
    IF signum = "SIGWINCH"
    THEN Resize(NoSize, "winch", inspectOk, transport)
    ELSE [raw |-> raw, log |-> resizeLog, out |-> "none", exc |-> "none"]

\* the window changes (or a SIGWINCH is sent) while the handler of this
\* module occupies the slot: the signal becomes pending
WindowChange ==
    /\ sigslot = "handle"
    /\ events < MaxEvents
    /\ events' = events + 1
    /\ termSize' \in Sizes
    /\ sigPending' = TRUE
    /\ lastOut' = "none"
    /\ UNCHANGED <<pc, exc, running, configTty, stdoutIsatty, termAttrs,
                   savedAttrs, sigslot, original_handler, raw, sockOpen,
                   pumpsMade, blocking, flags, src, ready, results,
                   resizeLog, hist>>

\* the interpreter runs the occupant of the slot between two steps of the
\* control thread; an exception of the handler is raised in the control thread
DeliverWinch ==
    /\ sigPending
    /\ sigPending' = FALSE
    /\ IF sigslot = "handle"
       THEN \E inspectOk \in BOOLEAN, transport \in {"ok", "IOError"} :
              LET r == Handle("SIGWINCH", inspectOk, transport) IN
              /\ raw' = r.raw
              /\ resizeLog' = r.log
              /\ lastOut' = r.out
              /\ IF r.exc # "none" /\ pc \notin {"idle", "done"}
                 THEN /\ exc' = r.exc
                      /\ pc' = Unwind(pc)
                      /\ hist' = [hist EXCEPT !.finallyErr = @ \/ pc = "restore"]
                      /\ IF pc \in LoopPcs
                         THEN ready' = <<>> /\ results' = <<>>
                         ELSE UNCHANGED <<ready, results>>
                 ELSE UNCHANGED <<exc, pc, hist, ready, results>>
       ELSE /\ lastOut' = "none"
            /\ UNCHANGED <<raw, resizeLog, exc, pc, hist, ready, results>>
    /\ UNCHANGED <<running, configTty, stdoutIsatty, termSize, termAttrs,
                   savedAttrs, sigslot, original_handler, sockOpen,
                   pumpsMade, blocking, flags, src, events>>

----------------------------------------------------------------------------
(* The environment and the caller *)

\* bytes arrive on a pump's source.  The program looks at a source only in
\* select and flush, and an arrival between two flushes of one iteration is
\* seen the same as one before the select or after the iteration.
SourceData ==
    /\ pc = "select"
    /\ \E p \in Pumps :
         /\ src[p] = "empty"
         /\ src' = [src EXCEPT ![p] = "data"]
    /\ lastOut' = "none"
    /\ UNCHANGED <<pc, exc, running, configTty, stdoutIsatty, termSize,
                   termAttrs, savedAttrs, sigslot, original_handler, raw,
                   sockOpen, pumpsMade, blocking, flags, ready, results,
                   resizeLog, sigPending, events, hist>>

\* a pump's source reaches end-of-stream
SourceEof ==
    /\ pc = "select"
    /\ \E p \in Pumps :
         /\ src[p] # "eof"
         /\ src' = [src EXCEPT ![p] = "eof"]
    /\ lastOut' = "none"
    /\ UNCHANGED <<pc, exc, running, configTty, stdoutIsatty, termSize,
                   termAttrs, savedAttrs, sigslot, original_handler, raw,
                   sockOpen, pumpsMade, blocking, flags, ready, results,
                   resizeLog, sigPending, events, hist>>

\* the container exits before start() is called
ContainerExit ==
    /\ pc = "idle"
    /\ running
    /\ running' = FALSE
    /\ lastOut' = "none"
    /\ UNCHANGED <<pc, exc, configTty, stdoutIsatty, termSize, termAttrs,
                   savedAttrs, sigslot, original_handler, raw, sockOpen,
                   pumpsMade, blocking, flags, src, ready, results,
                   resizeLog, sigPending, events, hist>>

\* the caller rebinds sys.stdout before calling start()
StdoutChange ==
    /\ pc = "idle"
    /\ stdoutIsatty' = ~stdoutIsatty
    /\ lastOut' = "none"
    /\ UNCHANGED <<pc, exc, running, configTty, termSize, termAttrs,
                   savedAttrs, sigslot, original_handler, raw, sockOpen,
                   pumpsMade, blocking, flags, src, ready, results,
                   resizeLog, sigPending, events, hist>>

\* the caller calls resize(size) itself, before start()
DirectResize ==
    /\ pc = "idle"
    /\ events < MaxEvents
    /\ events' = events + 1
    /\ \E size \in Sizes \cup {NoSize}, inspectOk \in BOOLEAN,
          transport \in {"ok", "IOError"} :
         LET r == Resize(size, "direct", inspectOk, transport) IN
         /\ raw' = r.raw
         /\ resizeLog' = r.log
         /\ lastOut' = r.out
         /\ exc' = r.exc
    /\ UNCHANGED <<pc, running, configTty, stdoutIsatty, termSize, termAttrs,
                   savedAttrs, sigslot, original_handler, sockOpen,
                   pumpsMade, blocking, flags, src, ready, results,
                   sigPending, hist>>

\* the caller calls israw() itself, before start()
DirectIsraw ==
    /\ pc = "idle"
    /\ events < MaxEvents
    /\ events' = events + 1
    /\ \E inspectOk \in BOOLEAN :
         LET ir == Israw(raw, inspectOk) IN
         /\ raw' = ir.raw
         /\ exc' = ir.exc
    /\ lastOut' = "none"
    /\ UNCHANGED <<pc, running, configTty, stdoutIsatty, termSize, termAttrs,
                   savedAttrs, sigslot, original_handler, sockOpen,
                   pumpsMade, blocking, flags, src, ready, results,
                   resizeLog, sigPending, hist>>

----------------------------------------------------------------------------
(* WINCHHandler called directly: start() and stop() outside a with block *)

\* WINCHHandler.start (lines 58-70)
HandlerStart ==
    /\ pc = "idle"
    /\ hist.winchEnters + hist.winchExits < MaxCalls
    /\ original_handler' = PreviousHandler(sigslot)
    /\ sigslot' = "handle"
    /\ hist' = [hist EXCEPT !.winchEnters = @ + 1]
    /\ lastOut' = "none"
    /\ UNCHANGED <<pc, exc, running, configTty, stdoutIsatty, termSize,
                   termAttrs, savedAttrs, raw, sockOpen, pumpsMade, blocking,
                   flags, src, ready, results, resizeLog, sigPending, events>>

\* WINCHHandler.stop (lines 73-79)
HandlerStop ==
    /\ pc = "idle"
    /\ hist.winchEnters + hist.winchExits < MaxCalls
    /\ sigslot' = SlotAfterStop(original_handler, sigslot)
    /\ hist' = [hist EXCEPT !.winchExits = @ + 1]
    /\ lastOut' = "none"
    /\ UNCHANGED <<pc, exc, running, configTty, stdoutIsatty, termSize,
                   termAttrs, savedAttrs, original_handler, raw, sockOpen,
                   pumpsMade, blocking, flags, src, ready, results,
                   resizeLog, sigPending, events>>

----------------------------------------------------------------------------
(* Specifications *)

Control ==
    \/ StartInspect
    \/ Sockets
    \/ SetNonblocking
    \/ WinchStart
    \/ TermEnter
    \/ InitialResize
    \/ Select
    \/ Flush
    \/ LoopCheck
    \/ TermExit
    \/ WinchStop
    \/ RestoreBlocking

Next ==
    \/ Control
    \/ WindowChange
    \/ DeliverWinch
    \/ SourceData
    \/ SourceEof
    \/ ContainerExit
    \/ StdoutChange
    \/ DirectResize
    \/ DirectIsraw

Spec == Init /\ [][Next]_vars

\* the control thread is never blocked for good: select returns after its
\* timeout at the latest.  Progress of the loop does not depend on the
\* attributes and the blocking modes start() found, so one value of each
\* is taken.
InitFair ==
    /\ Init
    /\ termAttrs = Cooked
    /\ blocking = [p \in Pumps |-> p # 1]

FairSpec == InitFair /\ [][Next]_vars /\ WF_vars(Control)

\* one WINCHHandler driven by calls of start() and stop() in any order, with
\* window changes in between; start() of the PseudoTerminal is not called
HandlerInit ==
    /\ Init
    /\ running
    /\ termAttrs = Cooked
    /\ blocking = [p \in Pumps |-> TRUE]

HandlerNext ==
    \/ HandlerStart
    \/ HandlerStop
    \/ WindowChange
    \/ DeliverWinch

HandlerSpec == HandlerInit /\ [][HandlerNext]_vars

----------------------------------------------------------------------------
(* Properties *)

InStart == pc \notin {"idle", "done"}
TerminalHeld == hist.termEnters > hist.termExits
StartPushes == {i \in 1..Len(resizeLog) : resizeLog[i].by = "start"}
WinchPushes == {i \in 1..Len(resizeLog) : resizeLog[i].by = "winch"}
\* the step delivers the pending SIGWINCH
HandlerRuns == sigPending /\ ~sigPending'
PushOf(size, by) == [rows |-> size[1], cols |-> size[2], by |-> by]

\* C1: however the pump loop ends, the terminal attributes after start() are
\* those captured before raw mode was entered, and they are never changed
\* while israw() is not true.
ThmC1 ==
    /\ pc = "done" => termAttrs = hist.attrs0
    /\ raw # "True" => termAttrs = hist.attrs0
    /\ savedAttrs # <<>> => savedAttrs[1] = hist.attrs0

WitC1 ==
    /\ pc = "done"
    /\ exc = "FlushError"
    /\ raw = "True"
    /\ savedAttrs # <<>>
    /\ hist.termExits = 1
    /\ SetRaw(hist.attrs0) # hist.attrs0

\* C2: after start() returns or raises, the SIGWINCH slot holds the handler
\* that occupied it before start() was called, whatever that occupant was.
CexC2 == pc = "done" => sigslot = hist.slot0

\* C3: for a session that is not running, start() fails and does nothing
\* else: no socket, no pump, no blocking mode changed, no handler installed,
\* no raw mode, no resize.
ThmC3 ==
    (pc # "idle" /\ ~running) =>
        /\ pc = "done"
        /\ exc \in {"NotRunning", "InspectError"}
        /\ sockOpen = 0
        /\ ~pumpsMade
        /\ flags = <<>>
        /\ blocking = hist.blocking0
        /\ sigslot = hist.slot0
        /\ hist.winchEnters = 0
        /\ hist.termEnters = 0
        /\ termAttrs = hist.attrs0
        /\ StartPushes = {}
        /\ WinchPushes = {}

WitC3 == pc = "done" /\ ~running /\ exc = "NotRunning"

\* C4: when start() returns or raises on a live session, each pump has the
\* blocking mode that start() snapshotted.
CexC4 ==
    (pc = "done" /\ flags # <<>>) =>
        \A p \in Pumps : blocking[p] = flags[p]

\* C5: once a source is at end-of-stream the loop ends no later than the
\* iteration whose select follows it, start() eventually returns, and the
\* terminal guard and the handler scope are each left exactly once.
ThmC5 ==
    /\ [](hist.eofSelects <= 1)
    /\ [](hist.termExits <= hist.termEnters /\ hist.winchExits <= hist.winchEnters
          /\ hist.termEnters <= 1 /\ hist.winchEnters <= 1)
    /\ []((pc = "done" /\ hist.eofSelects > 0) =>
            (hist.termExits = 1 /\ hist.winchExits = 1))
    /\ ((pc \in LoopPcs /\ \E p \in Pumps : src[p] = "eof") ~> (pc = "done"))

WitC5 ==
    /\ pc = "done"
    /\ exc = "none"
    /\ hist.eofSelects = 1
    /\ src[2] = "eof"
    /\ hist.termExits = 1
    /\ hist.winchExits = 1

\* C6: client.resize is called only when israw() is true, so a session
\* without a pseudo-terminal never receives a resize, whoever calls resize().
ThmC6 == Len(resizeLog) > 0 => (raw = "True" /\ configTty)

WitC6 ==
    /\ raw = "False"
    /\ events = MaxEvents
    /\ ~sigPending
    /\ pc \in LoopPcs
    /\ resizeLog = <<>>

\* C7: when client.resize fails because the container already exited,
\* resize() returns normally: nothing is raised to a direct caller, and inside
\* start() control goes on as after a successful resize.
ThmC7 ==
    [][lastOut' = "IOError" =>
         /\ pc = "idle" => (pc' = "idle" /\ exc' = "none")
         /\ (pc # "idle" /\ HandlerRuns) => (pc' = pc /\ exc' = exc)
         /\ (pc # "idle" /\ ~HandlerRuns) =>
                (pc = "resize0" /\ pc' = "select" /\ exc' = exc)]_vars

WitC7 ==
    /\ lastOut = "IOError"
    /\ pc = "select"
    /\ exc = "none"
    /\ StartPushes # {}

ThmC9 ==
    [][(HandlerRuns /\ pc \in LoopPcs /\ raw = "True" /\ stdoutIsatty) =>
         /\ resizeLog' = Append(resizeLog, PushOf(termSize, "winch"))
         /\ UNCHANGED <<pc, exc, ready, results, src, blocking, flags>>]_vars

WitC9 ==
    /\ pc = "flush"
    /\ Len(results) = 1
    /\ Len(ready) = 2
    /\ lastOut # "none"
    /\ Len(resizeLog) = 2
    /\ resizeLog[2] = PushOf(<<24, 80>>, "winch")
    /\ resizeLog[1].rows = 40

CexC11 ==
    [][(pc = "flush" /\ \E i \in 1..Len(results) : ~results[i]) =>
         ~(Len(results') > Len(results))]_vars

\* C11 amended: the loop ends with the iteration in which a flush returned
\* the ended sentinel: no select follows that iteration, and once the loop
\* has been left no pump is flushed and the loop is not entered again.
ThmC11 ==
    /\ [][(pc = "flush" /\ \E i \in 1..Len(results) : ~results[i]) =>
            pc' # "select"]_vars
    /\ [][(pc \in {"term_exit", "winch_exit", "restore", "done"}) =>
            (pc' \notin LoopPcs /\ results' = <<>> /\ src' = src)]_vars

WitC11 ==
    /\ pc = "flush"
    /\ ready = <<2, 3>>
    /\ results = <<FALSE, TRUE>>
    /\ src[2] = "eof"

\* C12: the first israw() that completes fixes its value as "stdout is a
\* terminal and the container has a tty"; from then on the value does not
\* change and no call of israw() depends on inspect or on the terminal:
\* line 211 enters the guard with the memo and cannot fail, and a direct call
\* raises nothing.
ThmC12 ==
    /\ [][(raw # "None") => raw' = raw]_vars
    /\ [][(raw = "None" /\ raw' # "None") =>
            raw' = (IF stdoutIsatty /\ configTty THEN "True" ELSE "False")]_vars
    /\ [][(raw # "None" /\ pc = "term_enter" /\ pc' # pc) =>
            /\ pc' = "resize0"
            /\ exc' = exc
            /\ (savedAttrs' # <<>>) <=> (raw = "True")]_vars
    /\ [][(raw # "None" /\ pc = "idle" /\ events' > events) => exc' = "none"]_vars

WitC12 ==
    /\ raw = "True"
    /\ ~stdoutIsatty
    /\ pc = "resize0"
    /\ savedAttrs # <<>>
    /\ termAttrs = SetRaw(hist.attrs0)

\* C13 as stated: when io.set_blocking raises at line 145, that exception is
\* the one that leaves start(), and the pumps have the modes they had before.
CexC13 ==
    (pc = "done" /\ pumpsMade /\ flags = <<>>) =>
        (exc = "SetBlockingError" /\ blocking = hist.blocking0)

\* C14: an iteration that ends normally, by break or by going on to the next
\* select, has flushed every pump of its ready set, each one once and in the
\* order of the ready set; one step flushes one pump.
ThmC14 ==
    /\ [](pc = "flush" =>
            /\ Len(results) <= Len(ready)
            /\ \A i, j \in 1..Len(ready) : ready[i] = ready[j] => i = j)
    /\ [][(pc = "flush" /\ pc' # pc /\ exc' = exc) =>
            (Len(results) = Len(ready) /\ pc' \in {"select", "term_exit"})]_vars
    /\ [][(Len(results') > Len(results)) =>
            /\ pc = "flush" /\ pc' = "flush"
            /\ Len(results) < Len(ready)
            /\ Len(results') = Len(results) + 1
            /\ ready' = ready
            /\ \A q \in Pumps \ {ready[Len(results) + 1]} : src'[q] = src[q]]_vars

WitC14 ==
    /\ pc = "flush"
    /\ ready = <<1, 2, 3>>
    /\ results = <<TRUE, FALSE, TRUE>>
    /\ src = [p \in Pumps |-> IF p = 2 THEN "eof" ELSE "empty"]

\* C15: the loop is left without an exception only at the end of an iteration
\* in which some flush returned None; an iteration with an empty ready set,
\* or whose flushes all returned a count, is followed by the next select.
ThmC15 ==
    /\ [][(pc \in LoopPcs /\ pc' \notin LoopPcs /\ exc' = exc) =>
            /\ pc = "flush"
            /\ Len(results) = Len(ready)
            /\ \E i \in 1..Len(results) : ~results[i]]_vars
    /\ [][(pc = "flush" /\ pc' # pc /\ exc' = exc
              /\ \A i \in 1..Len(results) : results[i]) =>
            pc' = "select"]_vars

WitC15 ==
    /\ pc = "term_exit"
    /\ exc = "none"
    /\ src = [p \in Pumps |-> IF p = 3 THEN "eof" ELSE "empty"]
    /\ raw = "False"

\* C16 as stated: a run of the installed handler leaves the position of the
\* control thread and its exception state as they were.
CexC16 == [][HandlerRuns => (pc' = pc /\ exc' = exc)]_vars

\* C17 as stated: when the finally clause restores the blocking modes, the
\* terminal attributes and the SIGWINCH slot are those start() found.
CexC17 ==
    [][(pc = "restore" /\ pc' = "done" /\ exc' = exc) =>
         (termAttrs = hist.attrs0 /\ sigslot = hist.slot0)]_vars

\* C18: while start() is at the select or at a flush all three pumps are
\* nonblocking, and from line 146 up to the finally clause no step changes a
\* blocking mode.
ThmC18 ==
    /\ [](pc \in LoopPcs => \A p \in Pumps : ~blocking[p])
    /\ [][(pc \in LoopPcs \cup {"winch_enter", "term_enter", "resize0",
                                "term_exit", "winch_exit"}) =>
            blocking' = blocking]_vars

WitC18 ==
    /\ pc = "flush"
    /\ Len(results) = 1
    /\ hist.blocking0 = [p \in Pumps |-> TRUE]
    /\ flags = <<TRUE, TRUE, TRUE>>
    /\ \A p \in Pumps : ~blocking[p]

\* C19 as stated: after every stop() the SIGWINCH slot holds what it held
\* before the first call on the WINCHHandler.
CexC19 ==
    [][(hist.winchExits' > hist.winchExits) => sigslot' = hist.slot0]_vars

\* C20 as stated: when start() has left the pump loop and returned or raised,
\* none of the attach sockets is open.
CexC20 == (pc = "done" /\ hist.termExits > 0) => sockOpen = 0

====
